---------------------------- MODULE Spec2Model ----------------------------
(***************************************************************************)
(* Model of kobo_jp_dict's src/main.rs: the script helpers, the lookup-key *)
(* expansion (generate_lookup_keys) and main's load / generate / sort /    *)
(* write pipeline.                                                         *)
(*                                                                         *)
(* A Rust String is modelled as the sequence of its Unicode scalar values  *)
(* (code points, as integers).  str::len() is the UTF-8 byte length, which *)
(* ByteLen computes from the code points.  The Ord of String is byte-wise  *)
(* lexicographic order, which for UTF-8 coincides with code point          *)
(* lexicographic order (StrLess).                                          *)
(***************************************************************************)
EXTENDS Integers, Sequences, FiniteSets, TLC

VARIABLES
    pc,               \* main: position in the pipeline
    jm_src,           \* the WordEntry stream jmdict::Parser yields
    pa_lines,         \* the lines of the pitch accent file (io::Result<String>)
    name_src,         \* yomichan name entries, in source order
    kanji_src,        \* yomichan kanji entries, in source order
    idx,              \* number of records of the current source consumed
    jm_table,         \* HashMap<(String, String), Vec<WordEntry>>
    pa_table,         \* HashMap<(String, String), Vec<u32>>
    yomi_name_table,  \* HashMap<(String, String), Vec<TermEntry>>
    yomi_kanji_table, \* HashMap<String, Vec<KanjiEntry>>
    pending,          \* keys the current HashMap::iter() has not yielded yet
    entries,          \* Vec<kobo::Entry>
    written,          \* what write_dictionary received (<<"none">> before)
    fn_entry,         \* argument of a generate_lookup_keys call
    fn_keys,          \* its result
    fn_done,          \* whether the call has returned
    text,             \* argument of a chain of script conversions
    conv_ops,         \* the conversions applied so far, in order
    conv_hist,        \* text, then the result of each conversion
    hd_args,          \* arguments of a generate_header_text call
    hd_text,          \* the String it returns
    hd_done           \* whether the call has returned

vars == <<pc, jm_src, pa_lines, name_src, kanji_src, idx, jm_table, pa_table,
          yomi_name_table, yomi_kanji_table, pending, entries, written,
          fn_entry, fn_keys, fn_done, text, conv_ops, conv_hist,
          hd_args, hd_text, hd_done>>

mainVars == <<pc, jm_src, pa_lines, name_src, kanji_src, idx, jm_table,
              pa_table, yomi_name_table, yomi_kanji_table, pending, entries,
              written>>
fnVars == <<fn_entry, fn_keys, fn_done>>
convVars == <<text, conv_ops, conv_hist>>
hdVars == <<hd_args, hd_text, hd_done>>

---------------------------------------------------------------------------
(* Bounds of the model.                                                    *)

MaxTextLen == 2     \* length of a converted text
MaxOps == 2         \* conversions chained on one text
MaxWritings == 1    \* writings of a WordEntry given to generate_lookup_keys
MaxReadings == 2    \* readings of a WordEntry given to generate_lookup_keys
MaxJm == 1          \* word entries in the JMDict stream
MaxPaLines == 2     \* lines of the pitch accent file
MaxNames == 1       \* yomichan name entries
MaxKanji == 1       \* yomichan kanji entries

\* All sequences over S of length lo..hi.
SeqsOf(S, lo, hi) == UNION {[1..n -> S] : n \in lo..hi}

---------------------------------------------------------------------------
(* Script helpers.                                                         *)

\* Numerical difference between hiragana and katakana in scalar values.
KANA_DIFF == 12449 - 12353    \* 0x30a1 - 0x3041

is_kana(c) ==
    \/ (c >= 12353 /\ c <= 12438)    \* 0x3041..0x3096 hiragana
    \/ (c >= 12441 /\ c <= 12444)    \* 0x3099..0x309c combining marks
    \/ (c >= 12445 /\ c <= 12446)    \* 0x309d..0x309e iterating marks
    \/ (c >= 12449 /\ c <= 12534)    \* 0x30a1..0x30f6 katakana
    \/ c = 12540                      \* 0x30fc prolonged sound mark
    \/ (c >= 12541 /\ c <= 12542)    \* 0x30fd..0x30fe iterating marks

\* char::try_from(u32): the scalar value if it is one, else the fallback.
CharTryFrom(c, fallback) ==
    IF (c >= 0 /\ c <= 55295) \/ (c >= 57344 /\ c <= 1114111) THEN c ELSE fallback

hiragana_to_katakana_char_shift1(c) ==
    IF (c >= 12353 /\ c <= 12438) \/ (c >= 12445 /\ c <= 12446)
    THEN CharTryFrom(c + KANA_DIFF + 1, c)
    ELSE c

hiragana_to_katakana_char(c) ==
    IF (c >= 12353 /\ c <= 12438) \/ (c >= 12445 /\ c <= 12446)
    THEN CharTryFrom(c + KANA_DIFF, c)
    ELSE c

hiragana_to_katakana(s) == [i \in 1..Len(s) |-> hiragana_to_katakana_char(s[i])]

katakana_to_hiragana_char(c) ==
    IF (c >= 12449 /\ c <= 12534) \/ (c >= 12541 /\ c <= 12542)
    THEN CharTryFrom(c - KANA_DIFF, c)
    ELSE c

katakana_to_hiragana(s) == [i \in 1..Len(s) |-> katakana_to_hiragana_char(s[i])]

is_all_kana(s) == \A i \in 1..Len(s) : is_kana(s[i])

RECURSIVE strip_non_kana(_)
strip_non_kana(s) ==
    IF s = <<>> THEN <<>>
    ELSE IF is_kana(Head(s)) THEN <<Head(s)>> \o strip_non_kana(Tail(s))
    ELSE strip_non_kana(Tail(s))

\* char::is_whitespace (the Unicode White_Space property).
is_whitespace(c) ==
    \/ (c >= 9 /\ c <= 13) \/ c = 32 \/ c = 133 \/ c = 160 \/ c = 5760
    \/ (c >= 8192 /\ c <= 8202) \/ c = 8232 \/ c = 8233 \/ c = 8239
    \/ c = 8287 \/ c = 12288

RECURSIVE trim_start(_)
trim_start(s) ==
    IF s # <<>> /\ is_whitespace(Head(s)) THEN trim_start(Tail(s)) ELSE s

RECURSIVE trim_end(_)
trim_end(s) ==
    IF s # <<>> /\ is_whitespace(s[Len(s)])
    THEN trim_end(SubSeq(s, 1, Len(s) - 1)) ELSE s

\* str::trim
trim(s) == trim_end(trim_start(s))

---------------------------------------------------------------------------
(* Strings: UTF-8 length, order, suffix test.                              *)

Utf8Len(c) == IF c < 128 THEN 1 ELSE IF c < 2048 THEN 2 ELSE IF c < 65536 THEN 3 ELSE 4

\* str::len(): the length in bytes.
RECURSIVE ByteLen(_)
ByteLen(s) == IF s = <<>> THEN 0 ELSE Utf8Len(Head(s)) + ByteLen(Tail(s))

\* a < b in the Ord of String.
StrLess(a, b) ==
    \E i \in 1..Len(b) :
        /\ Len(a) >= i - 1
        /\ \A j \in 1..(i - 1) : a[j] = b[j]
        /\ (Len(a) = i - 1 \/ a[i] < b[i])

\* str::ends_with
ends_with(word, trail) ==
    /\ Len(word) >= Len(trail)
    /\ SubSeq(word, Len(word) - Len(trail) + 1, Len(word)) = trail

\* Vec::dedup: drops each element equal to its predecessor.
RECURSIVE Dedup(_)
Dedup(s) ==
    IF Len(s) <= 1 THEN s
    ELSE IF s[Len(s)] = s[Len(s) - 1] THEN Dedup(SubSeq(s, 1, Len(s) - 1))
    ELSE Append(Dedup(SubSeq(s, 1, Len(s) - 1)), s[Len(s)])

\* Sort keys are triples <<u32, usize, String>>, compared as Rust tuples
\* are: lexicographically.  A sort with fewer components fixes the others.
SortKeyLess(a, b) ==
    \/ a[1] < b[1]
    \/ (a[1] = b[1] /\ a[2] < b[2])
    \/ (a[1] = b[1] /\ a[2] = b[2] /\ StrLess(a[3], b[3]))

\* Inserts the pair x = <<sort key, element>> into the sorted sequence s of
\* such pairs, after every pair whose key is not greater.
RECURSIVE InsertSorted(_, _)
InsertSorted(s, x) ==
    IF s = <<>> THEN <<x>>
    ELSE IF SortKeyLess(x[1], s[Len(s)][1])
         THEN Append(InsertSorted(SubSeq(s, 1, Len(s) - 1), x), s[Len(s)])
         ELSE Append(s, x)

RECURSIVE SortPairs(_)
SortPairs(s) ==
    IF s = <<>> THEN <<>>
    ELSE InsertSorted(SortPairs(SubSeq(s, 1, Len(s) - 1)), s[Len(s)])

\* The elements of a sorted sequence of <<sort key, element>> pairs.
Unpair(sorted) == [i \in 1..Len(sorted) |-> sorted[i][2]]

---------------------------------------------------------------------------
(* generate_lookup_keys.  A WordEntry is a record                          *)
(*   [writings, readings : sequences of strings, conj : a ConjugationClass,*)
(*    usually_kana : BOOLEAN, priority : u32].                             *)
(* A key is the pair <<surface string, priority>>.                         *)

\* The match on jm_entry.conj: the end_replace_push calls of the arm, each as
\* its trail and its endings.  "Other" stands for every class of the default
\* arm.
ConjRules(conj) ==
  CASE conj = "Other" -> << [trail |-> <<>>, endings |-> <<>>] >>
  [] conj = "IchidanVerb" ->
     <<
       [trail |-> <<12427>>,  \* る
        endings |-> <<<<>>,
                      <<12425, 12428>>,
                      <<12373, 12379>>,
                      <<12429>>,
                      <<12390>>,
                      <<12383>>>>]
     >>
  [] conj = "GodanVerbU" ->
     <<
       [trail |-> <<12358>>,  \* う
        endings |-> <<<<12431>>,
                      <<12356>>,
                      <<12360>>,
                      <<12362>>,
                      <<12387, 12390>>,
                      <<12387, 12383>>>>]
     >>
  [] conj = "GodanVerbTsu" ->
     <<
       [trail |-> <<12388>>,  \* つ
        endings |-> <<<<12383>>,
                      <<12385>>,
                      <<12390>>,
                      <<12392>>,
                      <<12387, 12390>>,
                      <<12387, 12383>>>>]
     >>
  [] conj = "GodanVerbRu" ->
     <<
       [trail |-> <<12385>>,  \* ち
        endings |-> <<<<12425>>,
                      <<12426>>,
                      <<12428>>,
                      <<12429>>,
                      <<12387, 12390>>,
                      <<12387, 12383>>>>]
     >>
  [] conj = "GodanVerbKu" ->
     <<
       [trail |-> <<12367>>,  \* く
        endings |-> <<<<12363>>,
                      <<12365>>,
                      <<12369>>,
                      <<12371>>,
                      <<12356, 12390>>,
                      <<12356, 12383>>>>]
     >>
  [] conj = "GodanVerbGu" ->
     <<
       [trail |-> <<12368>>,  \* ぐ
        endings |-> <<<<12364>>,
                      <<12366>>,
                      <<12370>>,
                      <<12372>>,
                      <<12356, 12391>>,
                      <<12356, 12384>>>>]
     >>
  [] conj = "GodanVerbNu" ->
     <<
       [trail |-> <<12396>>,  \* ぬ
        endings |-> <<<<12394>>,
                      <<12395>>,
                      <<12397>>,
                      <<12398>>,
                      <<12435, 12391>>,
                      <<12435, 12384>>>>]
     >>
  [] conj = "GodanVerbBu" ->
     <<
       [trail |-> <<12406>>,  \* ぶ
        endings |-> <<<<12400>>,
                      <<12403>>,
                      <<12409>>,
                      <<12412>>,
                      <<12435, 12391>>,
                      <<12435, 12384>>>>]
     >>
  [] conj = "GodanVerbMu" ->
     <<
       [trail |-> <<12416>>,  \* む
        endings |-> <<<<12414>>,
                      <<12415>>,
                      <<12417>>,
                      <<12418>>,
                      <<12435, 12391>>,
                      <<12435, 12384>>>>]
     >>
  [] conj = "GodanVerbSu" ->
     <<
       [trail |-> <<12377>>,  \* す
        endings |-> <<<<12373>>,
                      <<12375>>,
                      <<12379>>,
                      <<12381>>,
                      <<12375, 12390>>,
                      <<12375, 12383>>>>]
     >>
  [] conj = "IkuVerb" ->
     <<
       [trail |-> <<12367>>,  \* く
        endings |-> <<<<12363>>,
                      <<12365>>,
                      <<12369>>,
                      <<12371>>,
                      <<12387, 12390>>,
                      <<12387, 12383>>>>]
     >>
  [] conj = "KuruVerb" ->
     <<
       [trail |-> <<12367, 12427>>,  \* くる
        endings |-> <<<<12371, 12394, 12356>>,
                      <<12371, 12394, 12363, 12387, 12383>>,
                      <<12371, 12394, 12367, 12390>>,
                      <<12365, 12390>>,
                      <<12365, 12383>>,
                      <<12371, 12425, 12428>>,
                      <<12371, 12373, 12379>>,
                      <<12371, 12356>>,
                      <<12365, 12414, 12377>>,
                      <<12365, 12414, 12379, 12435>>,
                      <<12365, 12414, 12375, 12383>>>>],
       [trail |-> <<26469, 12427>>,  \* 来る
        endings |-> <<<<26469, 12394, 12356>>,
                      <<26469, 12394, 12363, 12387, 12383>>,
                      <<26469, 12394, 12367, 12390>>,
                      <<26469, 12390>>,
                      <<26469, 12383>>,
                      <<26469, 12425, 12428>>,
                      <<26469, 12373, 12379>>,
                      <<26469, 12356>>,
                      <<26469, 12414, 12377>>,
                      <<26469, 12414, 12379, 12435>>,
                      <<26469, 12414, 12375, 12383>>>>]
     >>
  [] conj = "SuruVerb" ->
     <<
       [trail |-> <<12377, 12427>>,  \* する
        endings |-> <<<<12375, 12394>>,
                      <<12375, 12429>>,
                      <<12373, 12379>>,
                      <<12373, 12428>>,
                      <<12391, 12365>>,
                      <<12375, 12383>>,
                      <<12375, 12390>>,
                      <<12375, 12414, 12377>>,
                      <<12375, 12414, 12379, 12435>>>>]
     >>
  [] conj = "IAdjective" ->
     <<
       [trail |-> <<12356>>,  \* い
        endings |-> <<<<>>,
                      <<12367>>,
                      <<12369>>,
                      <<12363, 12387, 12383>>,
                      <<12363, 12387, 12390>>>>]
     >>

ConjugationClass ==
    {"IchidanVerb", "GodanVerbU", "GodanVerbTsu", "GodanVerbRu", "GodanVerbKu",
     "GodanVerbGu", "GodanVerbNu", "GodanVerbBu", "GodanVerbMu", "GodanVerbSu",
     "IkuVerb", "KuruVerb", "SuruVerb", "IAdjective", "Other"}

\* KeyPriority with the boost given to every word of a usually-kana entry.
KeyPriorityAnyWord(jm_entry, word) ==
    IF jm_entry.usually_kana
    THEN jm_entry.priority \div 8
    ELSE jm_entry.priority

\* The priority end_replace_push gives to the keys of one word.
KeyPriority(jm_entry, word) ==
    IF is_all_kana(word) /\ jm_entry.usually_kana
    THEN jm_entry.priority \div 8
    ELSE jm_entry.priority

\* PushVariants without the katakana version of the variants.
RECURSIVE PushVariantsPlain(_, _, _, _)
PushVariantsPlain(keys, stem, endings, priority) ==
    IF endings = <<>> THEN keys
    ELSE PushVariantsPlain(Append(keys, <<stem \o Head(endings), priority>>),
                           stem, Tail(endings), priority)

\* The for loop over endings: pushes each variant, preceded by its katakana
\* version when the variant is all kana.
RECURSIVE PushVariants(_, _, _, _)
PushVariants(keys, stem, endings, priority) ==
    IF endings = <<>> THEN keys
    ELSE LET variant == stem \o Head(endings)
             k1 == IF is_all_kana(variant)
                   THEN Append(keys, <<hiragana_to_katakana(variant), priority>>)
                   ELSE keys
         IN  PushVariants(Append(k1, <<variant, priority>>), stem, Tail(endings), priority)

\* end_replace_push requiring the word to be longer than the trail.
end_replace_push_longer(keys, jm_entry, word, trail, endings) ==
    LET priority == KeyPriority(jm_entry, word)
        k1 == IF is_all_kana(word)
              THEN Append(keys, <<hiragana_to_katakana(word), priority>>)
              ELSE keys
        k2 == Append(k1, <<word, priority>>)
    IN  IF ByteLen(trail) > 0 /\ ByteLen(word) > ByteLen(trail) /\ ends_with(word, trail)
        THEN PushVariants(k2, SubSeq(word, 1, Len(word) - Len(trail)), endings, priority)
        ELSE k2

\* end_replace_push that also pushes the hiragana version of an all-kana word
\* and of its variants.
end_replace_push_both_scripts(keys, jm_entry, word, trail, endings) ==
    LET priority == KeyPriority(jm_entry, word)
        k1 == IF is_all_kana(word)
              THEN keys \o << <<hiragana_to_katakana(word), priority>>,
                              <<katakana_to_hiragana(word), priority>> >>
              ELSE keys
        k2 == Append(k1, <<word, priority>>)
        stem == SubSeq(word, 1, Len(word) - Len(trail))
    IN  IF ByteLen(trail) > 0 /\ ByteLen(word) >= ByteLen(trail) /\ ends_with(word, trail)
        THEN PushVariants(
                 PushVariantsPlain(k2,
                     IF is_all_kana(word) THEN katakana_to_hiragana(stem) ELSE stem,
                     IF is_all_kana(word) THEN endings ELSE <<>>, priority),
                 stem, endings, priority)
        ELSE k2

\* The closure end_replace_push; keys is the captured vector, returned grown.
end_replace_push(keys, jm_entry, word, trail, endings) ==
    LET priority == KeyPriority(jm_entry, word)
        k1 == IF is_all_kana(word)
              THEN Append(keys, <<hiragana_to_katakana(word), priority>>)
              ELSE keys
        k2 == Append(k1, <<word, priority>>)
    IN  IF ByteLen(trail) > 0 /\ ByteLen(word) >= ByteLen(trail) /\ ends_with(word, trail)
        THEN PushVariants(k2, SubSeq(word, 1, Len(word) - Len(trail)), endings, priority)
        ELSE k2

\* One arm of the match, for one word: its end_replace_push calls in order.
RECURSIVE ApplyRules(_, _, _, _)
ApplyRules(keys, jm_entry, word, rules) ==
    IF rules = <<>> THEN keys
    ELSE ApplyRules(end_replace_push(keys, jm_entry, word, Head(rules).trail, Head(rules).endings),
                    jm_entry, word, Tail(rules))

\* forms.sort(): the strings themselves are compared.
FormSortKey(w) == <<0, 0, w>>

\* forms.sort(): a stable sort.
SortForms(forms) ==
    Unpair(SortPairs([i \in 1..Len(forms) |-> <<FormSortKey(forms[i]), forms[i]>>]))

\* BaseForms taking every reading whatever usually_kana says.
BaseFormsAllReadings(jm_entry) ==
    Dedup(SortForms(jm_entry.writings \o jm_entry.readings))

\* The base forms: writings chained with the readings (all of them when
\* usually_kana, else the first), sorted and deduplicated.
BaseForms(jm_entry) ==
    Dedup(SortForms(jm_entry.writings \o
                      (IF jm_entry.usually_kana THEN jm_entry.readings
                       ELSE SubSeq(jm_entry.readings, 1, 1))))

\* The for loop over forms.
RECURSIVE ExpandForms(_, _, _)
ExpandForms(keys, jm_entry, forms) ==
    IF forms = <<>> THEN keys
    ELSE ExpandForms(ApplyRules(keys, jm_entry, Head(forms), ConjRules(jm_entry.conj)),
                     jm_entry, Tail(forms))

\* A sort key that leaves the surface string out: (a.1, a.0.len()).
LookupSortKeyNoString(a) == <<a[2], ByteLen(a[1]), <<>> >>

\* The sort key of keys.sort_by_key: (a.1, a.0.len(), a.0.clone()).
LookupSortKey(a) == <<a[2], ByteLen(a[1]), a[1]>>

\* keys.sort_by_key(..): a stable sort.
SortKeys(keys) ==
    Unpair(SortPairs([i \in 1..Len(keys) |-> <<LookupSortKey(keys[i]), keys[i]>>]))

generate_lookup_keys(jm_entry) ==
    Dedup(SortKeys(ExpandForms(<<>>, jm_entry, BaseForms(jm_entry))))

---------------------------------------------------------------------------
(* Values of the variables a specification does not use.                   *)

NoTable == [k \in {} |-> <<>>]

MainIdle ==
    /\ pc = "idle" /\ jm_src = <<>> /\ pa_lines = <<>> /\ name_src = <<>>
    /\ kanji_src = <<>> /\ idx = 0 /\ jm_table = NoTable /\ pa_table = NoTable
    /\ yomi_name_table = NoTable /\ yomi_kanji_table = NoTable
    /\ pending = {} /\ entries = <<>> /\ written = <<"none">>

NoEntry == [writings |-> <<>>, readings |-> <<>>, conj |-> "Other",
            usually_kana |-> FALSE, priority |-> 0]

FnIdle == fn_entry = NoEntry /\ fn_keys = <<>> /\ fn_done = FALSE

ConvIdle == text = <<>> /\ conv_ops = <<>> /\ conv_hist = <<>>

NoHeaderArgs == [use_katakana |-> FALSE, use_move_terms |-> FALSE,
                 kana |-> <<>>, pitch_accent |-> <<>>,
                 jm_entry |-> [writings |-> <<>>, readings |-> <<>>,
                               pos |-> "Other", conj |-> "Other",
                               usually_kana |-> FALSE, tags |-> {},
                               priority |-> 0]]

HdIdle == hd_args = NoHeaderArgs /\ hd_text = <<>> /\ hd_done = FALSE

---------------------------------------------------------------------------
(* SpecKana: chains of script conversions applied to a text.               *)

\* Code points on both sides of every range boundary of the conversions,
\* and characters of other scripts: U+3040 U+3041 U+3096 U+3097 U+3099
\* U+309D U+309E U+309F U+30A0 U+30A1 U+30F6 U+30F7 U+30FB U+30FC U+30FD
\* U+30FE U+30FF, 'A', U+98DF.
KanaAlphabet ==
    {12352, 12353, 12438, 12439, 12441, 12445, 12446, 12447, 12448, 12449,
     12534, 12535, 12539, 12540, 12541, 12542, 12543, 65, 39135}

InitKana ==
    /\ MainIdle /\ FnIdle /\ HdIdle
    /\ text \in SeqsOf(KanaAlphabet, 0, MaxTextLen)
    /\ conv_ops = <<>>
    /\ conv_hist = <<text>>

ToKatakana ==
    /\ Len(conv_ops) < MaxOps
    /\ conv_ops' = Append(conv_ops, "h2k")
    /\ conv_hist' = Append(conv_hist, hiragana_to_katakana(conv_hist[Len(conv_hist)]))
    /\ UNCHANGED <<text, mainVars, fnVars, hdVars>>

ToHiragana ==
    /\ Len(conv_ops) < MaxOps
    /\ conv_ops' = Append(conv_ops, "k2h")
    /\ conv_hist' = Append(conv_hist, katakana_to_hiragana(conv_hist[Len(conv_hist)]))
    /\ UNCHANGED <<text, mainVars, fnVars, hdVars>>

NextKana == ToKatakana \/ ToHiragana

SpecKana == InitKana /\ [][NextKana]_vars

---------------------------------------------------------------------------
(* SpecKeys: generate_lookup_keys called on a word entry.                  *)

\* Stems of writings: the empty stem and 食べ; of readings: たべ and タベ.
WritingStems == {<<>>, <<39135, 12409>>}

ReadingStems == {<<12383, 12409>>, <<12479, 12505>>}

\* Word endings tried with a class: the trails of its rules, and る.
ConjTails(conj) ==
    {ConjRules(conj)[i].trail : i \in 1..Len(ConjRules(conj))} \cup {<<12427>>}

WritingPool(conj) ==
    {st \o tl : st \in WritingStems, tl \in ConjTails(conj)} \ {<<>>}

\* Readings end with a kana trail of the class.
ReadingPool(conj) ==
    {st \o ConjRules(conj)[i].trail :
        st \in ReadingStems,
        i \in {j \in 1..Len(ConjRules(conj)) : is_all_kana(ConjRules(conj)[j].trail)}}

PriorityPool == {0, 17}

InitKeys ==
    /\ MainIdle /\ ConvIdle /\ HdIdle
    /\ \E conj \in ConjugationClass :
         fn_entry \in [writings : SeqsOf(WritingPool(conj), 0, MaxWritings),
                       readings : SeqsOf(ReadingPool(conj), 1, MaxReadings),
                       conj : {conj},
                       usually_kana : BOOLEAN,
                       priority : PriorityPool]
    /\ fn_keys = <<>>
    /\ fn_done = FALSE

GenerateLookupKeys ==
    /\ ~fn_done
    /\ fn_keys' = generate_lookup_keys(fn_entry)
    /\ fn_done' = TRUE
    /\ UNCHANGED <<fn_entry, mainVars, convVars, hdVars>>

NextKeys == GenerateLookupKeys

SpecKeys == InitKeys /\ [][NextKeys]_vars

---------------------------------------------------------------------------
(* Properties of generate_lookup_keys (checked under SpecKeys).            *)

KeySet == {fn_keys[i] : i \in 1..Len(fn_keys)}

Surfaces == {k[1] : k \in KeySet}

\* The base forms of the entry as a set: every writing, and every reading
\* if usually_kana, else the first reading.
BaseSet(e) ==
    {e.writings[i] : i \in 1..Len(e.writings)} \cup
    (IF e.usually_kana THEN {e.readings[i] : i \in 1..Len(e.readings)}
     ELSE {e.readings[1]})

\* The inflected variants of base form w: for each rule of the class whose
\* non-empty trail ends w, the stem followed by each ending.
VariantSet(e, w) ==
    UNION {IF r.trail # <<>> /\ ends_with(w, r.trail)
           THEN {SubSeq(w, 1, Len(w) - Len(r.trail)) \o r.endings[j] : j \in 1..Len(r.endings)}
           ELSE {}
           : r \in {ConjRules(e.conj)[i] : i \in 1..Len(ConjRules(e.conj))}}

\* Every surface form of the entry, base or inflected.
SurfaceForms(e) == BaseSet(e) \cup UNION {VariantSet(e, w) : w \in BaseSet(e)}

\* The priority a form of the entry is to get, by its own kana-ness.
FormPriority(e, f) ==
    IF is_all_kana(f) /\ e.usually_kana THEN e.priority \div 8 ELSE e.priority

\* C3 (as stated): every all-kana surface form of the result is a key of the
\* result under both its hiragana and its katakana spelling, with the same
\* priority, also when the source spelling is katakana.
C3_BothScripts ==
    fn_done =>
        \A k \in KeySet :
            is_all_kana(k[1]) =>
                /\ <<hiragana_to_katakana(k[1]), k[2]>> \in KeySet
                /\ <<katakana_to_hiragana(k[1]), k[2]>> \in KeySet

\* C3 (amended): every all-kana surface form of the entry (base or inflected)
\* is a key under its own spelling and under its katakana spelling, with the
\* same priority; no hiragana spelling is added, so every all-kana key is a
\* surface form of the entry or the katakana conversion of one.
C3_OwnAndKatakana ==
    fn_done =>
        /\ \A f \in SurfaceForms(fn_entry) :
               is_all_kana(f) =>
                   /\ <<f, FormPriority(fn_entry, f)>> \in KeySet
                   /\ <<hiragana_to_katakana(f), FormPriority(fn_entry, f)>> \in KeySet
        /\ \A k \in KeySet :
               is_all_kana(k[1]) =>
                   \E f \in SurfaceForms(fn_entry) :
                       k[1] = f \/ k[1] = hiragana_to_katakana(f)

\* A katakana base form with an inflected variant: its hiragana spelling is
\* not among the keys.
C3_Witness ==
    /\ fn_done
    /\ fn_entry.conj = "IchidanVerb"
    /\ fn_entry.readings = << <<12479, 12505, 12427>> >>      \* タベル
    /\ fn_entry.writings = <<>>
    /\ <<12479, 12505, 12390>> \in Surfaces                    \* タベて
    /\ <<12383, 12409, 12427>> \notin Surfaces                 \* たべる

\* C4: for every key (s, p) of the result with s all kana, the pair
\* (hiragana_to_katakana(s), p) is in the result too, for base forms and for
\* inflected variants alike.
C4_KatakanaKey ==
    fn_done =>
        \A k \in KeySet :
            is_all_kana(k[1]) => <<hiragana_to_katakana(k[1]), k[2]>> \in KeySet

\* A hiragana base form and a hiragana variant of it, both with a katakana
\* version that differs from them.
C4_Witness ==
    /\ fn_done
    /\ fn_entry.conj = "GodanVerbSu"
    /\ <<12383, 12409, 12377>> \in BaseSet(fn_entry)           \* たべす
    /\ <<12383, 12409, 12375, 12390>> \in Surfaces             \* たべして
    /\ <<12479, 12505, 12471, 12486>> \in Surfaces             \* タベシテ

\* C5: for an entry with usually_kana, every all-kana key has priority
\* floor(priority / 8), every other key has the entry's priority, and so no
\* all-kana key has a greater priority than a key that is not all kana;
\* this holds of inflected variants by their own kana-ness.
C5_KanaPriority ==
    (fn_done /\ fn_entry.usually_kana) =>
        /\ \A k \in KeySet :
               k[2] = (IF is_all_kana(k[1]) THEN fn_entry.priority \div 8
                       ELSE fn_entry.priority)
        /\ \A k1, k2 \in KeySet :
               (is_all_kana(k1[1]) /\ ~is_all_kana(k2[1])) => k1[2] <= k2[2]

\* A usually-kana entry of priority 17 with an inflected all-kana key (at
\* priority 2) and an inflected key that is not all kana (at priority 17).
C5_Witness ==
    /\ fn_done /\ fn_entry.usually_kana /\ fn_entry.priority = 17
    /\ fn_entry.conj = "KuruVerb"
    /\ << <<12383, 12409, 12365, 12390>>, 2 >> \in KeySet      \* たべきて
    /\ << <<39135, 12409, 26469, 12390>>, 17 >> \in KeySet     \* 食べ来て

\* C6: for a class with no inflection rule, the surface strings of the result
\* are exactly the base forms and the katakana conversion of each base form
\* that is all kana.
C6_NoInflection ==
    (fn_done /\ fn_entry.conj = "Other") =>
        Surfaces = BaseSet(fn_entry) \cup
                   {hiragana_to_katakana(w) : w \in {b \in BaseSet(fn_entry) : is_all_kana(b)}}

\* An entry of the default arm with a writing and two distinct readings of
\* which only the first is a base form.
C6_Witness ==
    /\ fn_done /\ fn_entry.conj = "Other" /\ ~fn_entry.usually_kana
    /\ Len(fn_entry.writings) = 1
    /\ Len(fn_entry.readings) = 2
    /\ fn_entry.readings[1] = <<12479, 12505>>                 \* タベ
    /\ fn_entry.readings[2] = <<12383, 12409>>                 \* たべ
    /\ <<12479, 12505>> \in Surfaces
    /\ <<12383, 12409>> \notin Surfaces

\* C7: for an ichidan entry and a base form w = stem + る, the result
\* contains w and stem + each of られ, させ, ろ, て, た.
C7_Ichidan ==
    (fn_done /\ fn_entry.conj = "IchidanVerb") =>
        \A w \in BaseSet(fn_entry) :
            ends_with(w, <<12427>>) =>
                \A sfx \in {<<12427>>, <<12425, 12428>>, <<12373, 12379>>,
                             <<12429>>, <<12390>>, <<12383>>} :
                    (SubSeq(w, 1, Len(w) - 1) \o sfx) \in Surfaces

\* 食べる and the bare る, expanded.
C7_Witness ==
    /\ fn_done /\ fn_entry.conj = "IchidanVerb"
    /\ fn_entry.writings = << <<39135, 12409, 12427>> >>      \* 食べる
    /\ <<39135, 12409, 12425, 12428>> \in Surfaces             \* 食べられ

---------------------------------------------------------------------------
(* Properties of the script conversions (checked under SpecKana).          *)

\* The Katakana block, U+30A0..U+30FF.
IsKatakanaText(s) == \A i \in 1..Len(s) : s[i] >= 12448 /\ s[i] <= 12543

\* The characters either conversion maps: U+3041..U+3096, U+309D..U+309E,
\* U+30A1..U+30F6, U+30FD..U+30FE.
InConvertibleRange(c) ==
    \/ (c >= 12353 /\ c <= 12438) \/ (c >= 12445 /\ c <= 12446)
    \/ (c >= 12449 /\ c <= 12534) \/ (c >= 12541 /\ c <= 12542)

\* C8: converting a katakana text to hiragana and back gives the text; each
\* conversion applied twice gives what it gives applied once; a character
\* outside both convertible ranges is left unchanged by both conversions.
C8_Conversions ==
    /\ \A i \in 1..(Len(conv_ops) - 1) :
           /\ (conv_ops[i] = "k2h" /\ conv_ops[i + 1] = "h2k" /\ IsKatakanaText(conv_hist[i]))
                  => conv_hist[i + 2] = conv_hist[i]
           /\ conv_ops[i] = conv_ops[i + 1] => conv_hist[i + 2] = conv_hist[i + 1]
    /\ \A i \in 1..Len(conv_ops) :
           /\ Len(conv_hist[i + 1]) = Len(conv_hist[i])
           /\ \A j \in 1..Len(conv_hist[i]) :
                  ~InConvertibleRange(conv_hist[i][j]) => conv_hist[i + 1][j] = conv_hist[i][j]

\* A katakana text that the conversion to hiragana changes, converted back.
C8_Witness ==
    /\ conv_ops = <<"k2h", "h2k">>
    /\ IsKatakanaText(text) /\ Len(text) = 2
    /\ conv_hist[2] # text
    /\ conv_hist[3] = text

---------------------------------------------------------------------------
(* main: loading the sources.                                              *)
(*                                                                         *)
(* The Kobo dictionary table and the yomichan term table feed only the     *)
(* definition text of a word entry, not its keys or its position; they are *)
(* not part of the model.  One yomichan dictionary is loaded.  A           *)
(* definition text is kept as the data it is rendered from.                *)

\* std::u32::MAX is 4294967295, beyond TLC's 32-bit integers; it is held as
\* TLC's largest integer, above every other priority of the model.
U32_MAX == 2147483647

\* HashMap::entry(key).or_insert(Vec::new()).push(value)
TablePush(table, key, value) ==
    [k \in DOMAIN table \cup {key} |->
        IF k = key
        THEN (IF key \in DOMAIN table THEN Append(table[key], value) ELSE <<value>>)
        ELSE table[k]]

\* HashMap::insert(key, value): replaces the value of a key already present.
TableInsert(table, key, value) ==
    [k \in DOMAIN table \cup {key} |-> IF k = key THEN value ELSE table[k]]

\* The key of a JMDict entry in jm_table.
JmKey(entry) ==
    LET reading == strip_non_kana(hiragana_to_katakana(trim(entry.readings[1])))
        writing == IF Len(entry.writings) > 0 THEN entry.writings[1]
                   ELSE trim(entry.readings[1])
    IN  <<writing, reading>>

\* str::split on the character sep: the fields between the separators.
RECURSIVE Split(_, _, _)
Split(s, sep, field) ==
    IF s = <<>> THEN <<field>>
    ELSE IF Head(s) = sep THEN <<field>> \o Split(Tail(s), sep, <<>>)
    ELSE Split(Tail(s), sep, Append(field, Head(s)))

\* char::is_digit(10)
is_digit(c) == c >= 48 /\ c <= 57

\* split(|ch| !ch.is_digit(10)).filter(|s| !s.is_empty()): the maximal runs
\* of digits.
RECURSIVE DigitRuns(_, _)
DigitRuns(s, run) ==
    IF s = <<>> THEN (IF run = <<>> THEN <<>> ELSE <<run>>)
    ELSE IF is_digit(Head(s)) THEN DigitRuns(Tail(s), Append(run, Head(s)))
    ELSE (IF run = <<>> THEN <<>> ELSE <<run>>) \o DigitRuns(Tail(s), <<>>)

RECURSIVE StripZeros(_)
StripZeros(d) == IF d # <<>> /\ Head(d) = 48 THEN StripZeros(Tail(d)) ELSE d

\* Whether parse::<u32>() fails on the digits d: the number exceeds
\* 4294967295 (compared digit by digit).
ParseOverflows(d) ==
    LET z == StripZeros(d)
        max == <<52, 50, 57, 52, 57, 54, 55, 50, 57, 53>>
    IN  Len(z) > 10 \/ (Len(z) = 10 /\ StrLess(max, z))

\* parse::<u32>() of digits that do not overflow.
RECURSIVE ParseU32(_)
ParseU32(d) ==
    IF d = <<>> THEN 0 ELSE 10 * ParseU32(SubSeq(d, 1, Len(d) - 1)) + (d[Len(d)] - 48)

\* line.split("\t").map(|a| a.trim()).collect()
PaParts(line) ==
    LET raw == Split(line, 9, <<>>) IN [i \in 1..Len(raw) |-> trim(raw[i])]

\* The (writing, reading) key of a pitch accent record.
PaKey(parts) ==
    IF is_all_kana(parts[1]) /\ parts[2] = <<>>
    THEN <<parts[1], hiragana_to_katakana(parts[1])>>
    ELSE <<parts[1], hiragana_to_katakana(parts[2])>>

\* The accents of a pitch accent record.
PaAccents(parts) ==
    LET runs == DigitRuns(parts[3], <<>>) IN [i \in 1..Len(runs) |-> ParseU32(runs[i])]

\* line.unwrap_or_else(|_| "".into())
LineText(line) == IF line.ok THEN line.text ELSE <<>>

\* The key of a yomichan name entry in yomi_name_table.
NameKey(entry) ==
    LET reading == strip_non_kana(hiragana_to_katakana(trim(entry.reading)))
        writing == trim(entry.writing)
    IN  IF writing = <<>> THEN <<trim(entry.reading), reading>> ELSE <<writing, reading>>

LoadJmEntry ==
    /\ pc = "load_jm" /\ idx < Len(jm_src)
    /\ jm_table' = TablePush(jm_table, JmKey(jm_src[idx + 1]), jm_src[idx + 1])
    /\ idx' = idx + 1
    /\ UNCHANGED <<pc, jm_src, pa_lines, name_src, kanji_src, pa_table,
                   yomi_name_table, yomi_kanji_table, pending, entries, written,
                   fnVars, convVars, hdVars>>

LoadJmDone ==
    /\ pc = "load_jm" /\ idx = Len(jm_src)
    /\ pc' = "load_pa" /\ idx' = 0
    /\ UNCHANGED <<jm_src, pa_lines, name_src, kanji_src, jm_table, pa_table,
                   yomi_name_table, yomi_kanji_table, pending, entries, written,
                   fnVars, convVars, hdVars>>

\* LoadPaLine without the assertion on the number of fields: a record that
\* has not three fields is skipped.
LoadPaLineSkipping ==
    /\ pc = "load_pa" /\ idx < Len(pa_lines)
    /\ LET parts == PaParts(LineText(pa_lines[idx + 1])) IN
         IF Len(parts) # 3
         THEN /\ idx' = idx + 1
              /\ UNCHANGED <<pc, pa_table>>
         ELSE IF \E r \in {DigitRuns(parts[3], <<>>)[i] :
                             i \in 1..Len(DigitRuns(parts[3], <<>>))} : ParseOverflows(r)
         THEN /\ pc' = "panicked"
              /\ UNCHANGED <<idx, pa_table>>
         ELSE /\ pa_table' = TableInsert(pa_table, PaKey(parts), PaAccents(parts))
              /\ idx' = idx + 1
              /\ UNCHANGED pc
    /\ UNCHANGED <<jm_src, pa_lines, name_src, kanji_src, jm_table,
                   yomi_name_table, yomi_kanji_table, pending, entries, written,
                   fnVars, convVars, hdVars>>

\* One iteration of the loop over the lines of the pitch accent file.
\* assert_eq! and unwrap panic: the process ends.
LoadPaLine ==
    /\ pc = "load_pa" /\ idx < Len(pa_lines)
    /\ LET parts == PaParts(LineText(pa_lines[idx + 1])) IN
         IF Len(parts) # 3
         THEN /\ pc' = "panicked"
              /\ UNCHANGED <<idx, pa_table>>
         ELSE IF \E r \in {DigitRuns(parts[3], <<>>)[i] :
                             i \in 1..Len(DigitRuns(parts[3], <<>>))} : ParseOverflows(r)
         THEN /\ pc' = "panicked"
              /\ UNCHANGED <<idx, pa_table>>
         ELSE /\ pa_table' = TableInsert(pa_table, PaKey(parts), PaAccents(parts))
              /\ idx' = idx + 1
              /\ UNCHANGED pc
    /\ UNCHANGED <<jm_src, pa_lines, name_src, kanji_src, jm_table,
                   yomi_name_table, yomi_kanji_table, pending, entries, written,
                   fnVars, convVars, hdVars>>

LoadPaDone ==
    /\ pc = "load_pa" /\ idx = Len(pa_lines)
    /\ pc' = "load_names" /\ idx' = 0
    /\ UNCHANGED <<jm_src, pa_lines, name_src, kanji_src, jm_table, pa_table,
                   yomi_name_table, yomi_kanji_table, pending, entries, written,
                   fnVars, convVars, hdVars>>

LoadNameEntry ==
    /\ pc = "load_names" /\ idx < Len(name_src)
    /\ yomi_name_table' = TablePush(yomi_name_table, NameKey(name_src[idx + 1]),
                                    name_src[idx + 1])
    /\ idx' = idx + 1
    /\ UNCHANGED <<pc, jm_src, pa_lines, name_src, kanji_src, jm_table, pa_table,
                   yomi_kanji_table, pending, entries, written, fnVars, convVars, hdVars>>

LoadNamesDone ==
    /\ pc = "load_names" /\ idx = Len(name_src)
    /\ pc' = "load_kanji" /\ idx' = 0
    /\ UNCHANGED <<jm_src, pa_lines, name_src, kanji_src, jm_table, pa_table,
                   yomi_name_table, yomi_kanji_table, pending, entries, written,
                   fnVars, convVars, hdVars>>

LoadKanjiEntry ==
    /\ pc = "load_kanji" /\ idx < Len(kanji_src)
    /\ yomi_kanji_table' = TablePush(yomi_kanji_table, kanji_src[idx + 1].kanji,
                                     kanji_src[idx + 1])
    /\ idx' = idx + 1
    /\ UNCHANGED <<pc, jm_src, pa_lines, name_src, kanji_src, jm_table, pa_table,
                   yomi_name_table, pending, entries, written, fnVars, convVars, hdVars>>

\* The loading is over; jm_table.iter() starts.
LoadKanjiDone ==
    /\ pc = "load_kanji" /\ idx = Len(kanji_src)
    /\ pc' = "gen_terms" /\ idx' = 0
    /\ pending' = DOMAIN jm_table
    /\ UNCHANGED <<jm_src, pa_lines, name_src, kanji_src, jm_table, pa_table,
                   yomi_name_table, yomi_kanji_table, entries, written,
                   fnVars, convVars, hdVars>>

---------------------------------------------------------------------------
(* main: generating the entries, sorting and writing them.                 *)
(*                                                                         *)
(* HashMap::iter() yields the keys in an arbitrary order: pending holds    *)
(* the keys not yet yielded and each step takes any one of them.           *)

\* pa_table.get(&key): an Option, as a sequence of at most one value.
PitchAccent(key) == IF key \in DOMAIN pa_table THEN <<pa_table[key]>> ELSE <<>>

\* The entries pushed for one key of jm_table: one per word entry of the key.
TermEntries(key) ==
    [i \in 1..Len(jm_table[key]) |->
        [keys |-> generate_lookup_keys(jm_table[key][i]),
         definition |-> [kind |-> "word", kana |-> key[2],
                         pitch_accent |-> PitchAccent(key),
                         item |-> jm_table[key][i]]]]

\* The entries pushed for one key of yomi_name_table.
NameEntries(key) ==
    [i \in 1..Len(yomi_name_table[key]) |->
        [keys |-> << <<key[1], U32_MAX>> >>,
         definition |-> [kind |-> "name", item |-> yomi_name_table[key][i]]]]

\* The entry pushed for one key of yomi_kanji_table.
KanjiEntry(key) ==
    [keys |-> << <<key, 0>> >>,
     definition |-> [kind |-> "kanji", item |-> yomi_kanji_table[key][1]]]

\* The key of entries.sort_by_key: a.keys[0].0.len().
EntrySortKey(a) == <<0, ByteLen(a.keys[1][1]), <<>> >>

\* entries.sort_by_key(..): a stable sort.
SortedEntries(es) ==
    Unpair(SortPairs([i \in 1..Len(es) |-> <<EntrySortKey(es[i]), es[i]>>]))

GenTermEntries ==
    /\ pc = "gen_terms"
    /\ \E key \in pending :
         /\ entries' = entries \o TermEntries(key)
         /\ pending' = pending \ {key}
    /\ UNCHANGED <<pc, jm_src, pa_lines, name_src, kanji_src, idx, jm_table,
                   pa_table, yomi_name_table, yomi_kanji_table, written,
                   fnVars, convVars, hdVars>>

GenTermsDone ==
    /\ pc = "gen_terms" /\ pending = {}
    /\ pc' = "gen_names"
    /\ pending' = DOMAIN yomi_name_table
    /\ UNCHANGED <<jm_src, pa_lines, name_src, kanji_src, idx, jm_table,
                   pa_table, yomi_name_table, yomi_kanji_table, entries, written,
                   fnVars, convVars, hdVars>>

GenNameEntries ==
    /\ pc = "gen_names"
    /\ \E key \in pending :
         /\ entries' = entries \o NameEntries(key)
         /\ pending' = pending \ {key}
    /\ UNCHANGED <<pc, jm_src, pa_lines, name_src, kanji_src, idx, jm_table,
                   pa_table, yomi_name_table, yomi_kanji_table, written,
                   fnVars, convVars, hdVars>>

GenNamesDone ==
    /\ pc = "gen_names" /\ pending = {}
    /\ pc' = "gen_kanji"
    /\ pending' = DOMAIN yomi_kanji_table
    /\ UNCHANGED <<jm_src, pa_lines, name_src, kanji_src, idx, jm_table,
                   pa_table, yomi_name_table, yomi_kanji_table, entries, written,
                   fnVars, convVars, hdVars>>

GenKanjiEntry ==
    /\ pc = "gen_kanji"
    /\ \E key \in pending :
         /\ entries' = Append(entries, KanjiEntry(key))
         /\ pending' = pending \ {key}
    /\ UNCHANGED <<pc, jm_src, pa_lines, name_src, kanji_src, idx, jm_table,
                   pa_table, yomi_name_table, yomi_kanji_table, written,
                   fnVars, convVars, hdVars>>

\* entries.sort_by_key(|a| a.keys[0].0.len()), after the last kanji entry.
SortEntries ==
    /\ pc = "gen_kanji" /\ pending = {}
    /\ entries' = SortedEntries(entries)
    /\ pc' = "write"
    /\ UNCHANGED <<jm_src, pa_lines, name_src, kanji_src, idx, jm_table,
                   pa_table, yomi_name_table, yomi_kanji_table, pending, written,
                   fnVars, convVars, hdVars>>

\* kobo::write_dictionary(&entries, ...) receives the sorted entries.
WriteDictionary ==
    /\ pc = "write"
    /\ written' = <<"entries", entries>>
    /\ pc' = "done"
    /\ UNCHANGED <<jm_src, pa_lines, name_src, kanji_src, idx, jm_table,
                   pa_table, yomi_name_table, yomi_kanji_table, pending, entries,
                   fnVars, convVars, hdVars>>

---------------------------------------------------------------------------
(* Spec: a run of main on bounded sources.                                 *)

\* 食べる (たべる), ichidan; AB (エービー), no inflection; たべる without a
\* writing, usually written in kana.
JmPool ==
    {[writings |-> << <<39135, 12409, 12427>> >>, readings |-> << <<12383, 12409, 12427>> >>,
      conj |-> "IchidanVerb", usually_kana |-> FALSE, priority |-> 5],
     [writings |-> << <<65, 66>> >>, readings |-> << <<12456, 12540, 12499, 12540>> >>,
      conj |-> "Other", usually_kana |-> FALSE, priority |-> 3],
     [writings |-> <<>>, readings |-> << <<12383, 12409, 12427>> >>,
      conj |-> "IchidanVerb", usually_kana |-> TRUE, priority |-> 17]}

\* The lines "食べる<TAB>たべる<TAB>2", "食べる<TAB>タベル<TAB>0,1",
\* "たべる<TAB><TAB> 1", "食べる<TAB>たべる" (two fields), and a line that
\* could not be read.
PaLinePool ==
    {[ok |-> TRUE, text |-> <<39135, 12409, 12427, 9, 12383, 12409, 12427, 9, 50>>],
     [ok |-> TRUE, text |-> <<39135, 12409, 12427, 9, 12479, 12505, 12523, 9, 48, 44, 49>>],
     [ok |-> TRUE, text |-> <<12383, 12409, 12427, 9, 9, 32, 49>>],
     [ok |-> TRUE, text |-> <<39135, 12409, 12427, 9, 12383, 12409, 12427>>],
     [ok |-> FALSE, text |-> <<>>]}

\* The names 林 (はやし) and, without a writing, " たろう ".
NamePool ==
    {[writing |-> <<26519>>, reading |-> <<12399, 12420, 12375>>],
     [writing |-> <<>>, reading |-> <<32, 12383, 12429, 12358, 32>>]}

\* The kanji 食 (U+98DF, three bytes) and U+20B9F (four bytes).
KanjiPool == {[kanji |-> <<39135>>], [kanji |-> <<134047>>]}

Init ==
    /\ FnIdle /\ ConvIdle /\ HdIdle
    /\ pc = "load_jm"
    /\ jm_src \in SeqsOf(JmPool, 0, MaxJm)
    /\ pa_lines \in SeqsOf(PaLinePool, 0, MaxPaLines)
    /\ name_src \in SeqsOf(NamePool, 0, MaxNames)
    /\ kanji_src \in SeqsOf(KanjiPool, 0, MaxKanji)
    /\ idx = 0
    /\ jm_table = NoTable /\ pa_table = NoTable
    /\ yomi_name_table = NoTable /\ yomi_kanji_table = NoTable
    /\ pending = {}
    /\ entries = <<>>
    /\ written = <<"none">>

Next ==
    \/ LoadJmEntry \/ LoadJmDone
    \/ LoadPaLine \/ LoadPaDone
    \/ LoadNameEntry \/ LoadNamesDone
    \/ LoadKanjiEntry \/ LoadKanjiDone
    \/ GenTermEntries \/ GenTermsDone
    \/ GenNameEntries \/ GenNamesDone
    \/ GenKanjiEntry
    \/ SortEntries
    \/ WriteDictionary

Spec == Init /\ [][Next]_vars

---------------------------------------------------------------------------
(* Properties of main (checked under Spec).                                *)

\* The entries write_dictionary received.
Output == written[2]

\* C1: in the final ordered list, every entry generated from a name entry
\* comes after every entry that was not (word and kanji entries), whatever
\* the byte length of the keys.
C1_NamesLast ==
    pc = "done" =>
        \A i, j \in 1..Len(Output) :
            (Output[i].definition.kind = "name" /\ Output[j].definition.kind # "name")
                => j < i

\* C2: in the final ordered list, every kanji entry comes before every entry
\* whose first key is a string of two or more characters with priority >= 0.
C2_KanjiFirst ==
    pc = "done" =>
        \A i, j \in 1..Len(Output) :
            (/\ Output[i].definition.kind = "kanji"
             /\ Len(Output[j].keys[1][1]) >= 2
             /\ Output[j].keys[1][2] >= 0)
                => i < j

\* A line of the pitch accent file that does not split into three fields on
\* tabs: it has not exactly two tabs (an unreadable line is read as empty).
Malformed(line) ==
    Cardinality({i \in 1..Len(LineText(line)) : LineText(line)[i] = 9}) # 2

\* C9: if a line of the pitch accent source does not split into exactly three
\* tab-separated fields, the run never gets past loading: it panics there,
\* no entry is generated and write_dictionary receives nothing.
C9_MalformedLineAborts ==
    (\E i \in 1..Len(pa_lines) : Malformed(pa_lines[i])) =>
        /\ pc \in {"load_jm", "load_pa", "panicked"}
        /\ entries = <<>>
        /\ written = <<"none">>
        /\ (pc = "load_pa" => \A i \in 1..idx : ~Malformed(pa_lines[i]))

\* The run has panicked on a malformed second line, a word entry and a first
\* pitch accent record being loaded.
C9_Witness ==
    /\ pc = "panicked"
    /\ Len(jm_src) = 1
    /\ Len(pa_lines) = 2 /\ ~Malformed(pa_lines[1]) /\ Malformed(pa_lines[2])
    /\ idx = 1 /\ DOMAIN pa_table # {}
    /\ entries = <<>> /\ written = <<"none">>

\* The accents the source defines for a key: those of every record of the
\* key, in source order.
RECURSIVE SourceAccents(_, _)
SourceAccents(lines, key) ==
    IF lines = <<>> THEN <<>>
    ELSE LET parts == PaParts(LineText(Head(lines)))
         IN  (IF PaKey(parts) = key THEN PaAccents(parts) ELSE <<>>)
             \o SourceAccents(Tail(lines), key)

\* sub is a subsequence of s (its elements occur in s in the same order).
RECURSIVE IsSubsequence(_, _)
IsSubsequence(sub, s) ==
    IF sub = <<>> THEN TRUE
    ELSE IF s = <<>> THEN FALSE
    ELSE IF Head(sub) = Head(s) THEN IsSubsequence(Tail(sub), Tail(s))
    ELSE IsSubsequence(sub, Tail(s))

\* The elements of a sequence.
Elems(s) == {s[i] : i \in 1..Len(s)}

\* C10: once the pitch accent index is built, the list under a key contains
\* every accent position the source defines for the key, in source order,
\* also when they are defined on more than one record.
C10_AccentsAggregated ==
    pc \in {"load_names", "load_kanji", "gen_terms", "gen_names", "gen_kanji",
            "write", "done"} =>
        \A key \in DOMAIN pa_table :
            /\ Elems(SourceAccents(pa_lines, key)) \subseteq Elems(pa_table[key])
            /\ IsSubsequence(pa_table[key], SourceAccents(pa_lines, key))

---------------------------------------------------------------------------
(* generate_header_text (main.rs:277-395).  The header is a String, held   *)
(* as its code points.  pitch_accent is an Option<&Vec<u32>>: <<>> is      *)
(* None and <<list>> is Some(list).  jm_entry.tags is the set of the       *)
(* entry's tags, jm_entry.pos its PartOfSpeech.                            *)

\* " &nbsp;&nbsp;&mdash; 【"
HEADWORDS_OPEN ==
    <<32, 38, 110, 98, 115, 112, 59, 38, 110, 98, 115, 112, 59, 38, 109,
      100, 97, 115, 104, 59, 32, 12304>>

\* "】"
HEADWORDS_CLOSE == <<12305>>

\* "／"
HEADWORDS_SEP == <<65295>>

\* " <span style=\"font-size: 0.8em; font-style: italic; margin-left: 0;
\*  white-space: nowrap;\">"
WORD_TYPE_START ==
    <<32, 60, 115, 112, 97, 110, 32, 115, 116, 121, 108, 101, 61, 34, 102,
      111, 110, 116, 45, 115, 105, 122, 101, 58, 32, 48, 46, 56, 101, 109,
      59, 32, 102, 111, 110, 116, 45, 115, 116, 121, 108, 101, 58, 32, 105,
      116, 97, 108, 105, 99, 59, 32, 109, 97, 114, 103, 105, 110, 45, 108,
      101, 102, 116, 58, 32, 48, 59, 32, 119, 104, 105, 116, 101, 45, 115,
      112, 97, 99, 101, 58, 32, 110, 111, 119, 114, 97, 112, 59, 34, 62>>

\* "</span>"
WORD_TYPE_END == <<60, 47, 115, 112, 97, 110, 62>>

\* format!("{}", a) of a u32: its decimal digits.
RECURSIVE FormatU32(_)
FormatU32(n) ==
    IF n < 10 THEN <<48 + n>>
    ELSE Append(FormatU32(n \div 10), 48 + (n % 10))

\* for a in accent_list.iter() { text.push_str(&format!("[{}]", a)); }
RECURSIVE PushAccents(_, _)
PushAccents(t, accent_list) ==
    IF accent_list = <<>> THEN t
    ELSE PushAccents(t \o <<91>> \o FormatU32(Head(accent_list)) \o <<93>>,
                     Tail(accent_list))

\* if let Some(accent_list) = pitch_accent { if !accent_list.is_empty() ... }
PitchAccentText(t, pitch_accent) ==
    IF pitch_accent # <<>> /\ pitch_accent[1] # <<>>
    THEN PushAccents(t \o <<32>>, pitch_accent[1])
    ELSE t

\* for w in jm_entry.writings.iter(): a "／" before every writing but the
\* first thing pushed into the bracket.
RECURSIVE PushWritings(_, _, _)
PushWritings(t, writings, first) ==
    IF writings = <<>> THEN t
    ELSE PushWritings((IF ~first THEN t \o HEADWORDS_SEP ELSE t)
                          \o Head(writings),
                      Tail(writings), FALSE)

\* A bracket that holds the first reading alone, and no writing, for a
\* usually_kana entry.
HeadwordListReadingAlone(t, jm_entry) ==
    IF jm_entry.usually_kana \/ jm_entry.writings = <<>>
    THEN t \o jm_entry.readings[1]
    ELSE PushWritings(t, jm_entry.writings, TRUE)

\* let mut first = true; if usually_kana || writings.is_empty() { push
\* readings[0]; first = false; } then the loop over the writings.
HeadwordList(t, jm_entry) ==
    IF jm_entry.usually_kana \/ jm_entry.writings = <<>>
    THEN PushWritings(t \o jm_entry.readings[1], jm_entry.writings, FALSE)
    ELSE PushWritings(t, jm_entry.writings, TRUE)

\* let conj_type_text = match jm_entry.conj { ... }
ConjTypeText(conj) ==
    IF conj = "IchidanVerb"
    THEN <<44, 32, 105, 99, 104, 105, 100, 97, 110>>            \* ", ichidan"
    ELSE IF conj \in {"GodanVerbU", "GodanVerbTsu", "GodanVerbRu",
                      "GodanVerbKu", "GodanVerbGu", "GodanVerbNu",
                      "GodanVerbBu", "GodanVerbMu", "GodanVerbSu"}
    THEN <<44, 32, 103, 111, 100, 97, 110>>                     \* ", godan"
    ELSE IF conj \in {"SuruVerb", "SuruVerbSC", "KuruVerb", "IkuVerb",
                      "KureruVerb", "AruVerb", "SharuVerb", "GodanVerbHu",
                      "IrregularVerb"}
    THEN <<44, 32, 105, 114, 114, 101, 103, 117, 108, 97, 114>> \* ", irregular"
    ELSE <<>>

\* let transitive_text = match (transitive, intransitive) { ... }
TransitiveText(use_move_terms, tags) ==
    LET transitive == "pos:vt" \in tags
        intransitive == "pos:vi" \in tags
    IN  IF transitive /\ ~intransitive
        THEN IF use_move_terms
             THEN <<44, 32, 111, 116, 104, 101, 114, 45, 109, 111, 118,
                    101>>                                   \* ", other-move"
             ELSE <<44, 32, 116, 114, 97, 110, 115, 105, 116, 105, 118,
                    101>>                                   \* ", transitive"
        ELSE IF ~transitive /\ intransitive
        THEN IF use_move_terms
             THEN <<44, 32, 115, 101, 108, 102, 45, 109, 111, 118,
                    101>>                                   \* ", self-move"
             ELSE <<44, 32, 105, 110, 116, 114, 97, 110, 115, 105, 116,
                    105, 118, 101>>                         \* ", intransitive"
        ELSE <<>>

\* let adjective_type_text = match jm_entry.conj { ... }
AdjectiveTypeText(conj) ==
    IF conj = "IAdjective"
    THEN <<105, 45, 97, 100, 106, 101, 99, 116, 105, 118, 101>>
    ELSE IF conj = "IrregularIAdjective"
    THEN <<105, 45, 97, 100, 106, 101, 99, 116, 105, 118, 101, 44, 32,
           105, 114, 114, 101, 103, 117, 108, 97, 114>>
    ELSE <<97, 100, 106, 101, 99, 116, 105, 118, 101>>

\* match jm_entry.pos { Verb => ..., Adjective => ..., _ => {} }
WordTypeText(t, use_move_terms, jm_entry) ==
    IF jm_entry.pos = "Verb"
    THEN t \o WORD_TYPE_START \o <<118, 101, 114, 98>>          \* "verb"
           \o ConjTypeText(jm_entry.conj)
           \o TransitiveText(use_move_terms, jm_entry.tags)
           \o WORD_TYPE_END
    ELSE IF jm_entry.pos = "Adjective"
    THEN t \o WORD_TYPE_START \o AdjectiveTypeText(jm_entry.conj)
           \o WORD_TYPE_END
    ELSE t

generate_header_text(use_katakana, use_move_terms, kana, pitch_accent, jm_entry) ==
    LET t0 == IF use_katakana THEN hiragana_to_katakana(kana)
              ELSE katakana_to_hiragana(kana)
        t1 == PitchAccentText(t0, pitch_accent)
        t2 == t1 \o HEADWORDS_OPEN
        t3 == HeadwordList(t2, jm_entry)
        t4 == t3 \o HEADWORDS_CLOSE
    IN  WordTypeText(t4, use_move_terms, jm_entry)

---------------------------------------------------------------------------
(* SpecHeader: generate_header_text applied to one argument list.          *)

MaxHdWritings == 2  \* writings of a WordEntry given to generate_header_text
MaxAccents == 2     \* length of a pitch accent list

HdWritingPool == {<<39135, 12409, 12427>>, <<39135, 12427>>}   \* 食べる, 食る
HdReadingPool == {<<12383, 12409, 12427>>, <<12479, 12505, 12523>>}
                                                        \* たべる, タベル
HdKanaPool == {<<12479, 12505, 12523>>}                 \* タベル
AccentPool == {0, 12}

\* The PartOfSpeech values: the two main.rs names and two of the others.
PartOfSpeech == {"Verb", "Adjective", "Expression", "Other"}

\* One class per arm of the two matches on jm_entry.conj.
HdConjPool == {"IchidanVerb", "GodanVerbRu", "GodanVerbHu", "SuruVerb",
               "IAdjective", "IrregularIAdjective", "Other"}

TagPool == {"pos:vt", "pos:vi"}

InitHeader ==
    /\ MainIdle /\ FnIdle /\ ConvIdle
    /\ hd_args \in
         [use_katakana : BOOLEAN, use_move_terms : BOOLEAN,
          kana : HdKanaPool,
          pitch_accent :
              {<<>>} \cup {<<l>> : l \in SeqsOf(AccentPool, 0, MaxAccents)},
          jm_entry :
              [writings : SeqsOf(HdWritingPool, 0, MaxHdWritings),
               readings : SeqsOf(HdReadingPool, 1, 1),
               pos : PartOfSpeech, conj : HdConjPool,
               usually_kana : BOOLEAN, tags : SUBSET TagPool,
               priority : {5}]]
    /\ hd_text = <<>>
    /\ hd_done = FALSE

GenerateHeaderText ==
    /\ ~hd_done
    /\ hd_args # NoHeaderArgs
    /\ hd_text' = generate_header_text(hd_args.use_katakana,
                                       hd_args.use_move_terms, hd_args.kana,
                                       hd_args.pitch_accent, hd_args.jm_entry)
    /\ hd_done' = TRUE
    /\ UNCHANGED <<hd_args, mainVars, fnVars, convVars>>

NextHeader == GenerateHeaderText

SpecHeader == InitHeader /\ [][NextHeader]_vars

---------------------------------------------------------------------------
(* Claims about generate_header_text (under SpecHeader).                   *)

\* Index of the first c in t at or after position i (0 when there is none).
RECURSIVE IndexFrom(_, _, _)
IndexFrom(t, c, i) ==
    IF i > Len(t) THEN 0
    ELSE IF t[i] = c THEN i
    ELSE IndexFrom(t, c, i + 1)

\* The part of the header between 【 and 】, and the part after 】.
OpenAt == IndexFrom(hd_text, 12304, 1)
CloseAt == IndexFrom(hd_text, 12305, OpenAt + 1)
Bracket == SubSeq(hd_text, OpenAt + 1, CloseAt - 1)
TagSpan == SubSeq(hd_text, CloseAt + 1, Len(hd_text))

\* The strings of a list joined by ／.
RECURSIVE JoinedBySlash(_)
JoinedBySlash(list) ==
    IF list = <<>> THEN <<>>
    ELSE IF Len(list) = 1 THEN list[1]
    ELSE list[1] \o <<65295>> \o JoinedBySlash(Tail(list))

\* Whether string w occurs in string t.
Occurs(w, t) ==
    \E i \in 1..(Len(t) - Len(w) + 1) : SubSeq(t, i, i + Len(w) - 1) = w

HdEntry == hd_args.jm_entry

ReadingLeads == HdEntry.usually_kana \/ HdEntry.writings = <<>>

\* C11 (as stated): the bracket between 【 and 】 is the first reading alone
\* when the entry is usually_kana or has no writings, and otherwise every
\* writing in source order joined by ／; for a usually_kana entry that also
\* has writings, no writing appears in the bracket.
C11_ReadingAlone ==
    hd_done =>
        /\ OpenAt > 0 /\ CloseAt > OpenAt
        /\ Bracket = IF ReadingLeads THEN HdEntry.readings[1]
                     ELSE JoinedBySlash(HdEntry.writings)
        /\ (HdEntry.usually_kana =>
               \A i \in 1..Len(HdEntry.writings) :
                   ~Occurs(HdEntry.writings[i], Bracket))

\* C11 (amended): the bracket is the first reading followed by every
\* writing in source order, all joined by ／, when the entry is usually_kana
\* or has no writings (the reading alone when there are no writings), and
\* otherwise every writing in source order joined by ／ with no reading.
C11_ReadingThenWritings ==
    hd_done =>
        /\ OpenAt > 0 /\ CloseAt > OpenAt
        /\ Bracket = JoinedBySlash(
               (IF ReadingLeads THEN <<HdEntry.readings[1]>> ELSE <<>>)
                   \o HdEntry.writings)

\* A usually_kana entry with two writings has been given its header.
C11_Witness ==
    /\ hd_done
    /\ HdEntry.usually_kana
    /\ Len(HdEntry.writings) = 2
    /\ HdEntry.writings[1] # HdEntry.writings[2]

\* The labels the tag span of a verb may carry.
FamilyLabels ==
    {<<>>,
     <<44, 32, 105, 99, 104, 105, 100, 97, 110>>,               \* ", ichidan"
     <<44, 32, 103, 111, 100, 97, 110>>,                        \* ", godan"
     <<44, 32, 105, 114, 114, 101, 103, 117, 108, 97, 114>>}    \* ", irregular"

TransitivityLabels ==
    {<<44, 32, 111, 116, 104, 101, 114, 45, 109, 111, 118, 101>>,
     <<44, 32, 116, 114, 97, 110, 115, 105, 116, 105, 118, 101>>,
     <<44, 32, 115, 101, 108, 102, 45, 109, 111, 118, 101>>,
     <<44, 32, 105, 110, 116, 114, 97, 110, 115, 105, 116, 105, 118, 101>>}

AdjectiveLabels ==
    {<<105, 45, 97, 100, 106, 101, 99, 116, 105, 118, 101>>,
     <<105, 45, 97, 100, 106, 101, 99, 116, 105, 118, 101, 44, 32,
       105, 114, 114, 101, 103, 117, 108, 97, 114>>,
     <<97, 100, 106, 101, 99, 116, 105, 118, 101>>}

\* "expression"
ExpressionLabel == <<101, 120, 112, 114, 101, 115, 115, 105, 111, 110>>

InSpan(label) == WORD_TYPE_START \o label \o WORD_TYPE_END

ExactlyOneTransitivityTag ==
    ("pos:vt" \in HdEntry.tags) # ("pos:vi" \in HdEntry.tags)

\* C12 (as stated): a tag span follows the bracket for exactly these parts
\* of speech: verbs ("verb", an inflection-family label, and a transitivity
\* label that is there only when exactly one of pos:vt / pos:vi is a tag),
\* adjectives (one of the three adjective labels) and expressions (the
\* label "expression"); for every other part of speech there is no span.
C12_TagSpans ==
    hd_done =>
        /\ HdEntry.pos = "Verb" =>
              \E fam \in FamilyLabels :
              \E tr \in TransitivityLabels \cup {<<>>} :
                  /\ TagSpan = InSpan(<<118, 101, 114, 98>> \o fam \o tr)
                  /\ (tr # <<>> => ExactlyOneTransitivityTag)
        /\ HdEntry.pos = "Adjective" =>
              \E adj \in AdjectiveLabels : TagSpan = InSpan(adj)
        /\ HdEntry.pos = "Expression" => TagSpan = InSpan(ExpressionLabel)
        /\ HdEntry.pos \notin {"Verb", "Adjective", "Expression"} =>
              TagSpan = <<>>

\* The same without the expression case: what holds of verbs, adjectives
\* and the parts of speech that are none of the three.
C12_VerbAdjectiveSpans ==
    hd_done =>
        /\ HdEntry.pos = "Verb" =>
              \E fam \in FamilyLabels :
              \E tr \in TransitivityLabels \cup {<<>>} :
                  /\ TagSpan = InSpan(<<118, 101, 114, 98>> \o fam \o tr)
                  /\ (tr # <<>> <=> ExactlyOneTransitivityTag)
        /\ HdEntry.pos = "Adjective" =>
              \E adj \in AdjectiveLabels : TagSpan = InSpan(adj)
        /\ HdEntry.pos \notin {"Verb", "Adjective", "Expression"} =>
              TagSpan = <<>>

---------------------------------------------------------------------------
(* Further claims about generate_lookup_keys (under SpecKeys).             *)

\* C13 (as stated): for a GodanVerbRu entry and a base form w = stem + る,
\* the result contains stem + each of ら, り, れ, ろ, って, った.
C13_GodanRu ==
    (fn_done /\ fn_entry.conj = "GodanVerbRu") =>
        \A w \in BaseSet(fn_entry) :
            ends_with(w, <<12427>>) =>
                \A sfx \in {<<12425>>, <<12426>>, <<12428>>, <<12429>>,
                             <<12387, 12390>>, <<12387, 12383>>} :
                    (SubSeq(w, 1, Len(w) - 1) \o sfx) \in Surfaces

---------------------------------------------------------------------------
(* SpecKeyOrder: generate_lookup_keys applied to entries with several      *)
(* writings and readings, of a class of each kind of rule (a rule whose    *)
(* trail is る, a rule whose trail is not, no rule).                       *)

MaxOrderWritings == 2   \* writings of a WordEntry
MaxOrderReadings == 2   \* readings of a WordEntry

OrderConjPool == {"IchidanVerb", "GodanVerbRu", "Other"}

InitKeyOrder ==
    /\ MainIdle /\ ConvIdle /\ HdIdle
    /\ \E conj \in OrderConjPool :
         fn_entry \in
             [writings : SeqsOf(WritingPool(conj), 0, MaxOrderWritings),
              readings : SeqsOf(ReadingPool(conj), 1, MaxOrderReadings),
              conj : {conj},
              usually_kana : BOOLEAN,
              priority : PriorityPool]
    /\ fn_keys = <<>>
    /\ fn_done = FALSE

SpecKeyOrder == InitKeyOrder /\ [][NextKeys]_vars

\* Key a comes before key b in the order (priority, byte length of the
\* surface string, surface string).
KeyBefore(a, b) ==
    \/ a[2] < b[2]
    \/ /\ a[2] = b[2]
       /\ \/ ByteLen(a[1]) < ByteLen(b[1])
          \/ ByteLen(a[1]) = ByteLen(b[1]) /\ StrLess(a[1], b[1])

\* Every reordering of the sequence s.
Reorderings(s) ==
    {[i \in 1..Len(s) |-> s[p[i]]] : p \in Permutations(1..Len(s))}

\* The entries that are e with its writings reordered and, when
\* usually_kana is set, its readings reordered.
ReorderedEntries(e) ==
    {[e EXCEPT !.writings = ws, !.readings = rs] :
        ws \in Reorderings(e.writings),
        rs \in IF e.usually_kana THEN Reorderings(e.readings)
               ELSE {e.readings}}

\* C14: the key list is strictly ascending in (priority, byte length of
\* surface, surface); so no (surface, priority) pair is in it twice, its
\* first element comes before every other key in that order, and the list
\* is the same for every reordering of the writings (and of the readings
\* when usually_kana is set).
C14_StrictlyAscending ==
    fn_done =>
        /\ \A i \in 1..(Len(fn_keys) - 1) :
               KeyBefore(fn_keys[i], fn_keys[i + 1])
        /\ \A i, j \in 1..Len(fn_keys) : i # j => fn_keys[i] # fn_keys[j]
        /\ \A i \in 2..Len(fn_keys) : KeyBefore(fn_keys[1], fn_keys[i])
        /\ \A e \in ReorderedEntries(fn_entry) :
               generate_lookup_keys(e) = fn_keys

\* A usually_kana entry with two different writings and two different
\* readings, whose reversed writings and readings are another entry, and
\* whose keys are of both priorities.
C14_Witness ==
    /\ fn_done
    /\ fn_entry.usually_kana
    /\ Len(fn_entry.writings) = 2
    /\ fn_entry.writings[1] # fn_entry.writings[2]
    /\ Len(fn_entry.readings) = 2
    /\ fn_entry.readings[1] # fn_entry.readings[2]
    /\ Cardinality(ReorderedEntries(fn_entry)) = 4
    /\ Cardinality({k[2] : k \in KeySet}) = 2

=============================================================================
